---- MODULE Spec2Model ----
(***************************************************************************)
(* The audit log of parse-video (package storage, src/storage/sqlite.go)   *)
(* and the three HTTP handlers of src/main.go that use it.                 *)
(*                                                                         *)
(* Representation.  A Go string whose bytes the code looks at (share_url,  *)
(* video_id, the Contains pattern, ts, images_json, the image strings, the *)
(* error message) is a sequence of one-character strings.  A Go string the *)
(* code only tests for emptiness or equality is a TLA+ string.  A pointer  *)
(* to a parser.VideoParseInfo or a time.Time is a sequence of length 0     *)
(* (nil) or 1.  An instant is a whole number of hours since                *)
(* 2024-01-01T00:00:00Z, kept inside January 2024; a zone offset is a      *)
(* whole number of hours.  Text is valid UTF-8.                            *)
(***************************************************************************)
EXTENDS Integers, Sequences, FiniteSets, TLC

VARIABLES
    pc,        \* main(): "boot" before storage.Init, "serving", or "fatal"
    db,        \* storage.db # nil
    schema,    \* the table records exists in the database file
    records,   \* the rows of table records, in insertion order
    seq,       \* sqlite_sequence.seq of table records (AUTOINCREMENT)
    loc,       \* the offset of time.Local, in hours
    now,       \* the wall clock
    hist,      \* the rows inserted since the process started, in Append order
    last       \* the last call: its arguments and what it returned

vars == <<pc, db, schema, records, seq, loc, now, hist, last>>

Min(a, b) == IF a <= b THEN a ELSE b

Max(a, b) == IF a >= b THEN a ELSE b

Reverse(s) == [i \in 1..Len(s) |-> s[Len(s) + 1 - i]]

Nil == <<>>

Ptr(v) == <<v>>

(***************************************************************************)
(* Bytes and text                                                          *)
(***************************************************************************)

\* The byte value of the characters a timestamp is made of.
Bytes ==
    ("+" :> 43) @@ ("-" :> 45) @@ ("0" :> 48) @@ ("1" :> 49) @@ ("2" :> 50)
    @@ ("3" :> 51) @@ ("4" :> 52) @@ ("5" :> 53) @@ ("6" :> 54) @@ ("7" :> 55)
    @@ ("8" :> 56) @@ ("9" :> 57) @@ (":" :> 58) @@ ("T" :> 84) @@ ("Z" :> 90)

Ord(c) == Bytes[c]

\* SQLite's BINARY collation on TEXT: memcmp, then the shorter one first.
RECURSIVE TextLEFrom(_, _, _)
TextLEFrom(a, b, i) ==
    IF i > Len(a) THEN TRUE
    ELSE IF i > Len(b) THEN FALSE
    ELSE IF Ord(a[i]) < Ord(b[i]) THEN TRUE
    ELSE IF Ord(a[i]) > Ord(b[i]) THEN FALSE
    ELSE TextLEFrom(a, b, i + 1)

TextLE(a, b) == TextLEFrom(a, b, 1)

Digits == <<"0", "1", "2", "3", "4", "5", "6", "7", "8", "9">>

Digit(n) == Digits[n + 1]

TwoDigits(n) == <<Digit(n \div 10), Digit(n % 10)>>

\* The "Z07:00" element of the layout: Z for UTC, otherwise sign hh:mm.
ZoneText(off) ==
    IF off = 0 THEN <<"Z">>
    ELSE <<IF off < 0 THEN "-" ELSE "+">>
         \o TwoDigits(IF off < 0 THEN -off ELSE off) \o <<":", "0", "0">>

\* time.Time.Format(time.RFC3339) of instant tm.t shown in the zone tm.off.
FormatRFC3339(tm) ==
    LET wall == tm.t + tm.off
    IN  <<"2", "0", "2", "4", "-", "0", "1", "-">>
        \o TwoDigits((wall \div 24) + 1) \o <<"T">> \o TwoDigits(wall % 24)
        \o <<":", "0", "0", ":", "0", "0">> \o ZoneText(tm.off)

\* ASCII lower-casing, as SQLite's LIKE folds case.
Fold(c) ==
    CASE c = "A" -> "a" [] c = "B" -> "b" [] c = "X" -> "x"
      [] OTHER -> c

\* SQLite's LIKE (no ESCAPE): % matches any run, _ any one character, and
\* ASCII letters match without regard to case.
RECURSIVE Like(_, _)
Like(p, s) ==
    IF p = <<>> THEN s = <<>>
    ELSE IF p[1] = "%" THEN Like(Tail(p), s) \/ (s # <<>> /\ Like(p, Tail(s)))
    ELSE IF s = <<>> THEN FALSE
    ELSE IF p[1] = "_" THEN Like(Tail(p), Tail(s))
    ELSE Fold(p[1]) = Fold(s[1]) /\ Like(Tail(p), Tail(s))

IsSpace(c) == c \in {" ", "\t", "\n"}

RECURSIVE TrimLeft(_)
TrimLeft(s) == IF s # <<>> /\ IsSpace(s[1]) THEN TrimLeft(Tail(s)) ELSE s

\* strings.TrimSpace
TrimSpace(s) == Reverse(TrimLeft(Reverse(TrimLeft(s))))

(***************************************************************************)
(* encoding/json on a list of strings                                      *)
(***************************************************************************)

Quote == "\""

Backslash == "\\"

\* The rune U+FFFD, which the decoder puts for an escape it cannot read.
ReplacementRune == "<U+FFFD>"

\* One character of a Go string inside a JSON string (escapeHTML is on).
EncodeChar(c) ==
    CASE c = Quote -> <<Backslash, Quote>>
      [] c = Backslash -> <<Backslash, Backslash>>
      [] c = "&" -> <<Backslash, "u", "0", "0", "2", "6">>
      [] OTHER -> <<c>>

RECURSIVE EncodeChars(_)
EncodeChars(s) ==
    IF s = <<>> THEN <<>> ELSE EncodeChar(s[1]) \o EncodeChars(Tail(s))

EncodeString(s) == <<Quote>> \o EncodeChars(s) \o <<Quote>>

RECURSIVE EncodeElems(_)
EncodeElems(l) ==
    IF l = <<>> THEN <<>>
    ELSE IF Len(l) = 1 THEN EncodeString(l[1])
    ELSE EncodeString(l[1]) \o <<",">> \o EncodeElems(Tail(l))

\* json.Marshal of a []string
Marshal(l) == <<"[">> \o EncodeElems(l) \o <<"]">>

\* The rune of a \uXXXX escape.
Rune(hex) ==
    CASE hex = <<"0", "0", "2", "6">> -> "&"
      [] OTHER -> ReplacementRune

NoString == [ok |-> FALSE, s |-> <<>>, next |-> 0]

\* The JSON string whose opening quote is before position i of js.
RECURSIVE ScanString(_, _, _)
ScanString(js, i, acc) ==
    IF i > Len(js) THEN NoString
    ELSE IF js[i] = Quote THEN [ok |-> TRUE, s |-> acc, next |-> i + 1]
    ELSE IF js[i] = Backslash THEN
        IF i + 1 > Len(js) THEN NoString
        ELSE IF js[i + 1] \in {Quote, Backslash}
            THEN ScanString(js, i + 2, Append(acc, js[i + 1]))
        ELSE IF js[i + 1] = "u" /\ i + 5 <= Len(js)
            THEN ScanString(js, i + 6, Append(acc, Rune(SubSeq(js, i + 2, i + 5))))
        ELSE NoString
    ELSE ScanString(js, i + 1, Append(acc, js[i]))

\* The elements of a JSON array from position i on; [ok, l].
RECURSIVE ScanElems(_, _, _)
ScanElems(js, i, acc) ==
    IF i > Len(js) \/ js[i] # Quote THEN [ok |-> FALSE, l |-> <<>>]
    ELSE LET r == ScanString(js, i + 1, <<>>)
         IN  IF ~r.ok \/ r.next > Len(js) THEN [ok |-> FALSE, l |-> <<>>]
             ELSE IF js[r.next] = "," THEN ScanElems(js, r.next + 1, Append(acc, r.s))
             ELSE IF js[r.next] = "]" /\ r.next = Len(js)
                 THEN [ok |-> TRUE, l |-> Append(acc, r.s)]
             ELSE [ok |-> FALSE, l |-> <<>>]

\* json.Unmarshal(js, &images): images is left as it was on an error.
Unmarshal(js, images) ==
    IF Len(js) < 2 \/ js[1] # "[" THEN images
    ELSE IF js = <<"[", "]">> THEN <<>>
    ELSE LET r == ScanElems(js, 2, <<>>) IN IF r.ok THEN r.l ELSE images

(***************************************************************************)
(* package storage                                                         *)
(***************************************************************************)

\* parser.VideoParseInfo
Info(title, video, music, cover, images, uid, name, avatar) ==
    [Title |-> title, VideoUrl |-> video, MusicUrl |-> music, CoverUrl |-> cover,
     Images |-> images, Author |-> [Uid |-> uid, Name |-> name, Avatar |-> avatar]]

\* storage.Record
Record(id, ts, endpoint, source, shareURL, videoID, ip, ua, result, error) ==
    [ID |-> id, Timestamp |-> ts, Endpoint |-> endpoint, Source |-> source,
     Input |-> [ShareURL |-> shareURL, VideoID |-> videoID],
     ClientIP |-> ip, UserAgent |-> ua, Result |-> result, Error |-> error]

\* The zero storage.QueryOptions.
NoOptions ==
    [Start |-> Nil, End |-> Nil, Source |-> "", Endpoint |-> "", Contains |-> <<>>,
     ClientIP |-> "", Limit |-> 0, Offset |-> 0]

ErrConnDone == "sql: connection is already closed"

\* What a failed statement returns: no table, a busy database, a cancelled context.
ErrExec == "sqlite: statement failed"

\* The result columns Append binds: empty unless rec.Result is set.
Flatten(rec) ==
    IF rec.Result # Nil
    THEN LET r == rec.Result[1]
         IN  [title |-> r.Title, video_url |-> r.VideoUrl, music_url |-> r.MusicUrl,
              cover_url |-> r.CoverUrl,
              images_json |-> IF Len(r.Images) > 0 THEN Marshal(r.Images) ELSE <<>>,
              author_uid |-> r.Author.Uid, author_name |-> r.Author.Name,
              author_avatar |-> r.Author.Avatar]
    ELSE [title |-> "", video_url |-> "", music_url |-> "", cover_url |-> "",
          images_json |-> <<>>, author_uid |-> "", author_name |-> "",
          author_avatar |-> ""]

\* The row INSERT stores for rec at instant t in zone zone, under rowid id.
Row(id, t, zone, rec) ==
    LET f == Flatten(rec)
    IN  [id |-> id, ts |-> FormatRFC3339([t |-> t, off |-> zone]),
         endpoint |-> rec.Endpoint, source |-> rec.Source,
         share_url |-> rec.Input.ShareURL, video_id |-> rec.Input.VideoID,
         client_ip |-> rec.ClientIP, user_agent |-> rec.UserAgent,
         title |-> f.title, video_url |-> f.video_url, music_url |-> f.music_url,
         cover_url |-> f.cover_url, images_json |-> f.images_json,
         author_uid |-> f.author_uid, author_name |-> f.author_name,
         author_avatar |-> f.author_avatar, error |-> TrimSpace(rec.Error)]

\* The largest rowid among rows[lo..hi]; 0 when there is none.
RECURSIVE MaxRowid(_, _, _)
MaxRowid(rows, lo, hi) ==
    IF lo > hi THEN 0
    ELSE IF lo = hi THEN rows[lo].id
    ELSE LET mid == (lo + hi) \div 2
         IN  Max(MaxRowid(rows, lo, mid), MaxRowid(rows, mid + 1, hi))

\* INTEGER PRIMARY KEY AUTOINCREMENT: one more than the largest rowid the table
\* has ever held.
NextRowid(rows, sequence) == Max(sequence, MaxRowid(rows, 1, Len(rows))) + 1

\* The table after INSERT INTO records of row r.
Insert(rows, r) == Append(rows, r)

\* Mutant: the table is dropped and created anew.
CreateTableAnew(rows) == <<>>

\* The table Init leaves: CREATE TABLE IF NOT EXISTS keeps an existing one.
CreateTable(rows) == rows

\* The WHERE clause Query builds from q.
Where(q, r) ==
    /\ q.Start # Nil => TextLE(FormatRFC3339(q.Start[1]), r.ts)
    /\ q.End # Nil => TextLE(r.ts, FormatRFC3339(q.End[1]))
    /\ q.Source # "" => r.source = q.Source
    /\ q.Endpoint # "" => r.endpoint = q.Endpoint
    /\ q.ClientIP # "" => r.client_ip = q.ClientIP
    /\ q.Contains # <<>> =>
          LET p == <<"%">> \o q.Contains \o <<"%">>
          IN  Like(p, r.share_url) \/ Like(p, r.video_id)

\* Mutant: the default is not applied to a limit of 0 or less.
EffectiveLimitNoDefault(q) == IF q.Limit > 200 THEN 50 ELSE q.Limit

EffectiveLimit(q) == IF q.Limit <= 0 \/ q.Limit > 200 THEN 50 ELSE q.Limit

EffectiveOffset(q) == IF q.Offset < 0 THEN 0 ELSE q.Offset

\* Two lists in descending id order merged into one.
RECURSIVE MergeDesc(_, _)
MergeDesc(a, b) ==
    IF a = <<>> THEN b
    ELSE IF b = <<>> THEN a
    ELSE IF a[Len(a)].id >= b[1].id THEN a \o b
    ELSE IF b[Len(b)].id >= a[1].id THEN b \o a
    ELSE IF a[1].id >= b[1].id THEN <<a[1]>> \o MergeDesc(Tail(a), b)
    ELSE <<b[1]>> \o MergeDesc(a, Tail(b))

\* rows[lo..hi] in descending id order.
RECURSIVE SortDesc(_, _, _)
SortDesc(rows, lo, hi) ==
    IF lo > hi THEN <<>>
    ELSE IF lo = hi THEN <<rows[lo]>>
    ELSE LET mid == (lo + hi) \div 2
         IN  MergeDesc(SortDesc(rows, lo, mid), SortDesc(rows, mid + 1, hi))

\* Mutant: ORDER BY id ASC.
OrderByIdAsc(rows) == Reverse(SortDesc(rows, 1, Len(rows)))

\* ORDER BY id DESC
OrderByIdDesc(rows) == SortDesc(rows, 1, Len(rows))

\* LIMIT limit OFFSET offset, as SQLite reads them: a negative limit is no
\* limit, a negative offset is 0.
LimitOffset(rows, limit, offset) ==
    LET o == IF offset < 0 THEN 0 ELSE offset
        n == IF limit < 0 THEN Len(rows) ELSE limit
    IN  SubSeq(rows, o + 1, Min(Len(rows), o + n))

\* The rows the SELECT of Query yields, in the order it yields them.
Select(rows, q) ==
    LimitOffset(OrderByIdDesc(SelectSeq(rows, LAMBDA r : Where(q, r))),
                EffectiveLimit(q), EffectiveOffset(q))

\* A Result is built when one of these columns is not empty.
HasResult(r) ==
    \/ r.title # "" \/ r.video_url # "" \/ r.cover_url # ""
    \/ r.images_json # <<>>
    \/ r.author_uid # "" \/ r.author_name # "" \/ r.author_avatar # ""

\* rows.Scan and the storage.Record built from the columns.
ScanRow(r) ==
    Record(r.id, r.ts, r.endpoint, r.source, r.share_url, r.video_id,
           r.client_ip, r.user_agent,
           IF HasResult(r)
           THEN Ptr(Info(r.title, r.video_url, r.music_url, r.cover_url,
                         Unmarshal(r.images_json, <<>>),
                         r.author_uid, r.author_name, r.author_avatar))
           ELSE Nil,
           r.error)

\* The list Query returns when its statement succeeds.
QueryList(rows, q) ==
    LET sel == Select(rows, q) IN [i \in 1..Len(sel) |-> ScanRow(sel[i])]

(***************************************************************************)
(* Bounds and inputs                                                       *)
(***************************************************************************)

\* Rows inserted by one process.
MaxAppends == 2

\* Hours the clock advances.
MaxTicks == 1

\* The clock at process start: 2024-01-11T00:00:00Z.
StartHour == 10 * 24

Zones == {0, 8}

EpShare == "/video/share/url/parse"

EpId == "/video/id/parse"

VideoInfo == Info("title", "http://v", "http://m", "http://c", <<>>, "uid", "name", "http://a")

GalleryInfo ==
    Info("", "", "", "", << <<"a", Quote, ",">>, <<"&", Backslash, "]">> >>, "", "", "")

CoverOnlyInfo == Info("", "", "", "http://c", <<>>, "", "", "")

MusicOnlyInfo == Info("", "", "http://m", "", <<>>, "", "", "")

\* The records the storage sessions append.
Recs ==
    { Record(0, <<>>, EpShare, "", <<"a", "X", "b">>, <<>>, "10.0.0.1", "ua", Ptr(VideoInfo), <<>>),
      Record(0, <<>>, EpShare, "", <<"a", "_", "b">>, <<>>, "10.0.0.2", "ua", Ptr(GalleryInfo), <<>>),
      Record(0, <<>>, EpShare, "", <<"%", "b">>, <<>>, "10.0.0.1", "ua", Ptr(MusicOnlyInfo), <<>>),
      Record(0, <<>>, EpShare, "", <<"c">>, <<>>, "10.0.0.1", "ua", Ptr(CoverOnlyInfo), <<>>),
      Record(0, <<>>, EpShare, "", <<"a", "b">>, <<>>, "10.0.0.2", "ua", Nil, <<" ", "e", " ", "r", "\n">>),
      Record(0, <<>>, EpId, "douyin", <<>>, <<"7", "x">>, "10.0.0.1", "ua", Ptr(VideoInfo), <<>>),
      Record(0, <<>>, EpId, "kuaishou", <<>>, <<"7", "X">>, "10.0.0.2", "", Nil, <<"e", "r">>) }

Patterns ==
    { <<"a">>, <<"a", "_", "b">>, <<"a", "x", "b">>, <<"%">>, <<"%", "b">>, <<"7", "X">>, <<"c">> }

TimeArgs == {Nil} \cup { Ptr([t |-> StartHour + d, off |-> z]) : d \in 0..1, z \in {0, 8, -5} }

\* The options the storage sessions query with.
QueryOpts ==
    { [NoOptions EXCEPT !.Contains = p] : p \in Patterns }
    \cup { [NoOptions EXCEPT !.Start = a] : a \in TimeArgs }
    \cup { [NoOptions EXCEPT !.End = b] : b \in TimeArgs }
    \cup { [NoOptions EXCEPT !.Start = Ptr([t |-> StartHour, off |-> z]),
                             !.End = Ptr([t |-> StartHour + 1, off |-> 0])] : z \in {0, 8} }
    \cup { [NoOptions EXCEPT !.Source = x, !.Endpoint = e, !.ClientIP = c] :
             x \in {"", "douyin"}, e \in {"", EpShare}, c \in {"", "10.0.0.1"} }
    \cup { [NoOptions EXCEPT !.Limit = l, !.Offset = o] : l \in {-1, 1, 500}, o \in {-5, 1} }

(***************************************************************************)
(* The exported functions of package storage, as actions                   *)
(***************************************************************************)

\* storage.Init(dbPath).  outcome: "ok"; "open", MkdirAll or sql.Open fails and
\* db is left as it was; "exec", db is set and a PRAGMA or the CREATE fails.
InitCall(outcome) ==
    [err |-> IF outcome = "ok" THEN "" ELSE ErrExec,
     db |-> IF outcome = "open" THEN db ELSE TRUE,
     schema |-> IF outcome = "ok" THEN TRUE ELSE schema,
     records |-> IF outcome = "ok" THEN CreateTable(records) ELSE records]

StorageInit(outcome) ==
    LET r == InitCall(outcome)
    IN  /\ db' = r.db
        /\ schema' = r.schema
        /\ records' = r.records
        /\ last' = [op |-> "Init", err |-> r.err]
        /\ UNCHANGED <<pc, seq, loc, now, hist>>

\* storage.Append(ctx, rec).  fail: the INSERT fails (busy, cancelled, I/O).
AppendCall(rec, fail) ==
    IF ~db THEN [err |-> ErrConnDone, records |-> records, seq |-> seq, hist |-> hist]
    ELSE IF ~schema \/ fail
        THEN [err |-> ErrExec, records |-> records, seq |-> seq, hist |-> hist]
    ELSE LET id == NextRowid(records, seq)
         IN  [err |-> "", records |-> Insert(records, Row(id, now, loc, rec)),
              seq |-> id, hist |-> Append(hist, [id |-> id, t |-> now, rec |-> rec])]

StorageAppend(rec, fail) ==
    LET r == AppendCall(rec, fail)
    IN  /\ Len(r.hist) <= MaxAppends
        /\ records' = r.records
        /\ seq' = r.seq
        /\ hist' = r.hist
        /\ last' = [op |-> "Append", rec |-> rec, err |-> r.err]
        /\ UNCHANGED <<pc, db, schema, loc, now>>

\* storage.Query(ctx, q).  fail: the SELECT or the scan of its rows fails.
QueryCall(q, fail) ==
    IF ~db THEN [list |-> <<>>, err |-> ErrConnDone]
    ELSE IF ~schema \/ fail THEN [list |-> <<>>, err |-> ErrExec]
    ELSE [list |-> QueryList(records, q), err |-> ""]

StorageQuery(q, fail) ==
    LET r == QueryCall(q, fail)
    IN  /\ last' = [op |-> "Query", q |-> q, list |-> r.list, err |-> r.err]
        /\ UNCHANGED <<pc, db, schema, records, seq, loc, now, hist>>

\* The wall clock advances.
Tick ==
    /\ now < StartHour + MaxTicks
    /\ now' = now + 1
    /\ UNCHANGED <<pc, db, schema, records, seq, loc, hist, last>>

\* A process with no database file yet, before storage.Init.
Init ==
    /\ pc = "boot"
    /\ db = FALSE
    /\ schema = FALSE
    /\ records = <<>>
    /\ seq = 0
    /\ loc \in Zones
    /\ now = StartHour
    /\ hist = <<>>
    /\ last = [op |-> "none"]

Next ==
    \/ \E outcome \in {"ok", "open", "exec"} : StorageInit(outcome)
    \/ \E rec \in Recs, fail \in BOOLEAN : StorageAppend(rec, fail)
    \/ \E q \in QueryOpts : StorageQuery(q, FALSE)
    \/ StorageQuery(NoOptions, TRUE)
    \/ Tick

Spec == Init /\ [][Next]_vars

(***************************************************************************)
(* A process started on a database file that earlier processes filled      *)
(***************************************************************************)

\* The rows the file holds when the process starts.
SeedSizes == {3, 60, 205}

\* What the handlers of earlier processes recorded: every third request came
\* through /video/id/parse with source douyin.
SeedRec(i) ==
    IF i % 3 = 0
    THEN Record(0, <<>>, EpId, "douyin", <<>>, <<"7">>, "10.0.0.1", "ua", Ptr(VideoInfo), <<>>)
    ELSE Record(0, <<>>, EpShare, "", <<"a", "b">>, <<>>, "10.0.0.2", "ua", Nil, <<"e", "r">>)

\* Ten requests an hour, the last of them before StartHour.
SeedRows(n, zone) ==
    [i \in 1..n |-> Row(i, StartHour - 24 + (i \div 10), zone, SeedRec(i))]

PageRecs == {SeedRec(3), SeedRec(1)}

PageOpts ==
    { [NoOptions EXCEPT !.Source = x, !.Limit = l, !.Offset = o] :
        x \in {"", "douyin"}, l \in {0, 2, 200, 500}, o \in {-5, 0, 1, 58} }

InitPage ==
    /\ pc = "boot"
    /\ db = FALSE
    /\ schema = TRUE
    /\ loc = 8
    /\ \E n \in SeedSizes : records = SeedRows(n, loc) /\ seq = n
    /\ now = StartHour
    /\ hist = <<>>
    /\ last = [op |-> "none"]

NextPage ==
    \/ \E outcome \in {"ok", "open", "exec"} : StorageInit(outcome)
    \/ \E rec \in PageRecs, fail \in BOOLEAN : StorageAppend(rec, fail)
    \/ \E q \in PageOpts : StorageQuery(q, FALSE)
    \/ StorageQuery(NoOptions, TRUE)

SpecPage == InitPage /\ [][NextPage]_vars

(***************************************************************************)
(* Pagination and order                                                    *)
(***************************************************************************)

\* The last call was a Query that returned a list, and no call followed it.
Queried == last.op = "Query" /\ last.err = ""

\* The rows q's filters keep, latest Append first.
NewestFirst(rows, q) == Reverse(SelectSeq(rows, LAMBDA r : Where(q, r)))

\* The records at positions o .. o+l-1 (from 0) of the newest-first list.
Page(rows, q, l, o) ==
    LET nf == NewestFirst(rows, q)
    IN  [i \in 1..Min(l, Max(0, Len(nf) - o)) |-> ScanRow(nf[o + i])]

\* C1: a Query with Limit above 200 returns min(200, matching records after
\* the offset) records.
C1_LimitAbove200Gives200 ==
    (Queried /\ last.q.Limit > 200) =>
        Len(last.list) =
            Min(200, Max(0, Len(NewestFirst(records, last.q)) - EffectiveOffset(last.q)))

\* C2: a Query with Limit 0 returns min(50, matching) records, and a Query
\* with a negative Offset returns what Offset 0 returns.
C2_LowParamsNormalised ==
    Queried =>
        /\ last.q.Limit = 0 =>
              Len(last.list) =
                  Min(50, Max(0, Len(NewestFirst(records, last.q)) - EffectiveOffset(last.q)))
        /\ last.q.Offset < 0 =>
              last.list = Page(records, last.q, EffectiveLimit(last.q), 0)

C2_Witness ==
    /\ Queried /\ last.q.Limit = 0 /\ last.q.Offset < 0
    /\ Len(NewestFirst(records, last.q)) > 50
    /\ Len(last.list) = 50

\* C4: a Query returns the matching records latest Append first, and of that
\* list the positions offset .. offset+limit-1.
C4_NewestFirstPage ==
    Queried =>
        last.list = Page(records, last.q, EffectiveLimit(last.q), EffectiveOffset(last.q))

C4_Witness ==
    /\ Queried /\ last.q.Offset > 0 /\ hist # <<>>
    /\ Len(last.list) = EffectiveLimit(last.q)
    /\ Len(last.list) > 1
    /\ Len(NewestFirst(records, last.q)) > last.q.Offset + Len(last.list)
    /\ last.list[1].ID > last.list[2].ID

(***************************************************************************)
(* Append-only                                                             *)
(***************************************************************************)

IsPrefix(a, b) == Len(a) <= Len(b) /\ \A i \in 1..Len(a) : b[i] = a[i]

\* The rowids grow along the table.
IdsIncreasing(rows) == \A i \in 1..(Len(rows) - 1) : rows[i].id < rows[i + 1].id

\* One step: the rows there stay as they are, only a successful Append (so
\* no Query and no Init) changes the table, and a successful Append adds one
\* row, under a rowid above every other.
AppendOnlyStep ==
    /\ IsPrefix(records, records')
    /\ Len(records') <= Len(records) + 1
    /\ records' # records => (last'.op = "Append" /\ last'.err = "")
    /\ (/\ last'.op = "Append" /\ last'.err = ""
        /\ \E rec \in PageRecs, fail \in BOOLEAN : StorageAppend(rec, fail))
          => /\ Len(records') = Len(records) + 1
             /\ \A i \in 1..Len(records) : records[i].id < records'[Len(records')].id

\* C9: no stored record is ever modified or removed, Query and Init leave the
\* store unchanged, a successful Append adds exactly one record, and the
\* record ids are unique and strictly increasing in Append order.
C9_AppendOnly == []IdsIncreasing(records) /\ [][AppendOnlyStep]_vars

\* Init has run again on a database that held rows before the process started
\* and rows the process appended.
C9_Witness ==
    /\ last.op = "Init" /\ last.err = ""
    /\ Len(hist) = 2 /\ Len(records) > Len(hist)
    /\ records[Len(records)].id = hist[2].id

(***************************************************************************)
(* What a Query gives back of what was appended                            *)
(***************************************************************************)

\* c occurs in s, character for character.
IsSubstring(c, s) ==
    \E i \in 1..(Len(s) - Len(c) + 1) : SubSeq(s, i, i + Len(c) - 1) = c

\* The Append that stored the row with this id, when this process made it.
Appended(id) == {h \in {hist[i] : i \in 1..Len(hist)} : h.id = id}

\* The latest Append of this process.
LastAppended == hist[Len(hist)]

\* C3: after Append of a record with a share URL and a result, a Query whose
\* Contains occurs in that share URL returns the record with every result
\* field, and the image list, as appended.
C3_RoundTrip ==
    (/\ Queried /\ hist # <<>>
     /\ LastAppended.rec.Input.ShareURL # <<>>
     /\ LastAppended.rec.Result # Nil
     /\ last.q.Contains # <<>>
     /\ IsSubstring(last.q.Contains, LastAppended.rec.Input.ShareURL)
     /\ last.q = [NoOptions EXCEPT !.Contains = last.q.Contains])
    => \E i \in 1..Len(last.list) :
          /\ last.list[i].ID = LastAppended.id
          /\ last.list[i].Input.ShareURL = LastAppended.rec.Input.ShareURL
          /\ last.list[i].Result = LastAppended.rec.Result

\* C10: a record comes back with a Result exactly when it was appended with
\* one, and a record appended with an error and no Result comes back with no
\* Result and that error message.
C10_ResultPresence ==
    Queried =>
        \A i \in 1..Len(last.list) : \A h \in Appended(last.list[i].ID) :
            /\ last.list[i].Result # Nil <=> h.rec.Result # Nil
            /\ (h.rec.Result = Nil /\ h.rec.Error # <<>>) =>
                  last.list[i].Error = h.rec.Error

\* The rows whose share URL or video id holds q.Contains character for
\* character and that pass q's other filters, latest Append first.
LiteralMatches(rows, q) ==
    Reverse(SelectSeq(rows, LAMBDA r :
        /\ Where([q EXCEPT !.Contains = <<>>], r)
        /\ IsSubstring(q.Contains, r.share_url) \/ IsSubstring(q.Contains, r.video_id)))

\* C5: a Query with a non-empty Contains returns exactly the records whose
\* share URL or video id contains it as a literal substring.
C5_ContainsLiteral ==
    (Queried /\ last.q.Contains # <<>>) =>
        LET m == LiteralMatches(records, last.q)
            o == EffectiveOffset(last.q)
        IN  last.list =
                [i \in 1..Min(EffectiveLimit(last.q), Max(0, Len(m) - o)) |-> ScanRow(m[o + i])]

\* The ids of the Appends made at an instant from Start to End.
InRange(q) ==
    {hist[i].id : i \in {j \in 1..Len(hist) :
        /\ q.Start # Nil => q.Start[1].t <= hist[j].t
        /\ q.End # Nil => hist[j].t <= q.End[1].t}}

\* C6: a Query with Start and/or End returns exactly the records appended at
\* an instant t with Start <= t <= End, whatever zone each is written in.
C6_TimeRange ==
    (/\ Queried
     /\ last.q.Start # Nil \/ last.q.End # Nil
     /\ last.q = [NoOptions EXCEPT !.Start = last.q.Start, !.End = last.q.End])
    => {last.list[i].ID : i \in 1..Len(last.list)} = InRange(last.q)

(***************************************************************************)
(* The resolution facade (package parser), as the handlers see it          *)
(***************************************************************************)

UnsupportedSource == <<"n", "o", " ", "s", "r", "c">>

UpstreamError == <<"5", "0", "3", "\n">>

DouyinText == <<"v", ".", "d", "y", "/", "a">>

\* The platform whose signature the share text matches; "" when none does.
Matcher(text) == IF text = DouyinText THEN "douyin" ELSE ""

Registered == {"douyin"}

\* parser.ParseVideoShareUrlByRegexp(text): the (result, error) pairs it may
\* return, each with the platform the matcher found.
ShareOutcomes(text) ==
    IF Matcher(text) = ""
    THEN {[platform |-> "", res |-> Nil, err |-> Ptr(UnsupportedSource)]}
    ELSE {[platform |-> Matcher(text), res |-> Ptr(VideoInfo), err |-> Nil],
          [platform |-> Matcher(text), res |-> Ptr(GalleryInfo), err |-> Nil],
          [platform |-> Matcher(text), res |-> Nil, err |-> Ptr(UpstreamError)]}

\* parser.ParseVideoId(source, videoId)
IdOutcomes(source, videoId) ==
    IF source \notin Registered
    THEN {[platform |-> "", res |-> Nil, err |-> Ptr(UnsupportedSource)]}
    ELSE {[platform |-> source, res |-> Ptr(VideoInfo), err |-> Nil],
          [platform |-> source, res |-> Nil, err |-> Ptr(UpstreamError)]}

(***************************************************************************)
(* main: the handlers                                                      *)
(***************************************************************************)

\* The message of a success response.
ParseOk == <<"jie", "xi", "cheng", "gong">>

\* err.Error() when err is set, "" otherwise.
ErrorText(err) == IF err # Nil THEN err[1] ELSE <<>>

\* jsonRes of the /video/share/url/parse handler.
ShareJsonRes(parseRes, err) ==
    IF err # Nil
    THEN [Code |-> 201, Msg |-> err[1], Data |-> Nil]
    ELSE [Code |-> 200, Msg |-> ParseOk, Data |-> parseRes]

\* Mutant: the success response is not replaced when the resolver failed.
IdJsonResAlwaysOk(parseRes, err) == [Code |-> 200, Msg |-> ParseOk, Data |-> parseRes]

\* jsonRes of the /video/id/parse handler.
IdJsonRes(parseRes, err) ==
    IF err # Nil
    THEN [Code |-> 201, Msg |-> err[1], Data |-> Nil]
    ELSE [Code |-> 200, Msg |-> ParseOk, Data |-> parseRes]

\* The record the /video/share/url/parse handler appends.
ShareRecord(paramUrl, ip, ua, parseRes, err) ==
    Record(0, <<>>, EpShare, "", paramUrl, <<>>, ip, ua, parseRes, ErrorText(err))

\* The record the /video/id/parse handler appends.
IdRecord(source, videoId, ip, ua, parseRes, err) ==
    Record(0, <<>>, EpId, source, <<>>, videoId, ip, ua, parseRes, ErrorText(err))

\* main up to the handlers: storage.Init, and log.Fatalf when it fails.
Boot(outcome) ==
    LET r == InitCall(outcome)
    IN  /\ pc = "boot"
        /\ pc' = IF r.err = "" THEN "serving" ELSE "fatal"
        /\ db' = r.db
        /\ schema' = r.schema
        /\ records' = r.records
        /\ last' = [op |-> "Init", err |-> r.err]
        /\ UNCHANGED <<seq, loc, now, hist>>

\* GET /video/share/url/parse?url=paramUrl
ShareUrlParse(paramUrl, out, ip, fail) ==
    LET r == AppendCall(ShareRecord(paramUrl, ip, "ua", out.res, out.err), fail)
    IN  /\ pc = "serving"
        /\ Len(r.hist) <= MaxAppends
        /\ records' = r.records
        /\ seq' = r.seq
        /\ hist' = r.hist
        /\ last' = [op |-> "share", input |-> paramUrl, out |-> out,
                    appendErr |-> r.err, resp |-> ShareJsonRes(out.res, out.err)]
        /\ UNCHANGED <<pc, db, schema, loc, now>>

\* GET /video/id/parse?source=source&video_id=videoId
VideoIdParse(source, videoId, out, ip, fail) ==
    LET r == AppendCall(IdRecord(source, videoId, ip, "ua", out.res, out.err), fail)
    IN  /\ pc = "serving"
        /\ Len(r.hist) <= MaxAppends
        /\ records' = r.records
        /\ seq' = r.seq
        /\ hist' = r.hist
        /\ last' = [op |-> "id", input |-> videoId, out |-> out,
                    appendErr |-> r.err, resp |-> IdJsonRes(out.res, out.err)]
        /\ UNCHANGED <<pc, db, schema, loc, now>>

\* parseTime of the /logs handler.  A parameter is absent, a run of digits
\* (epoch seconds, read in time.Local), an RFC3339 time, or something else.
ParseTime(p, zone) ==
    CASE p.kind = "epoch" -> Ptr([t |-> p.t, off |-> zone])
      [] p.kind = "rfc3339" -> Ptr([t |-> p.t, off |-> p.off])
      [] OTHER -> Nil

\* strconv.Atoi on limit or offset: the field stays 0 when the parameter is
\* absent or is no number.
IntParam(p) == IF p.kind = "int" THEN p.n ELSE 0

\* opts of the /logs handler.
LogsOptions(params, zone) ==
    [Start |-> ParseTime(params.start, zone), End |-> ParseTime(params.end, zone),
     Source |-> params.source, Endpoint |-> params.endpoint,
     Contains |-> params.contains, ClientIP |-> params.client_ip,
     Limit |-> IntParam(params.limit), Offset |-> IntParam(params.offset)]

\* GET /logs
Logs(params, fail) ==
    LET q == LogsOptions(params, loc)
        r == QueryCall(q, fail)
    IN  /\ pc = "serving"
        /\ last' = [op |-> "logs", q |-> q, list |-> r.list, err |-> r.err,
                    resp |-> IF r.err # ""
                             THEN [Code |-> 201, Msg |-> r.err, Data |-> Nil]
                             ELSE [Code |-> 200, Msg |-> "ok", Data |-> r.list]]
        /\ UNCHANGED <<pc, db, schema, records, seq, loc, now, hist>>

ShareTexts == {DouyinText, <<"x">>, <<>>}

Absent == [kind |-> "absent"]

NoParams ==
    [start |-> Absent, end |-> Absent, source |-> "", endpoint |-> "",
     contains |-> <<>>, client_ip |-> "", limit |-> Absent, offset |-> Absent]

\* The query strings /logs is asked with.
LogsParams ==
    { [NoParams EXCEPT !.source = x, !.endpoint = e] :
        x \in {"", "douyin"}, e \in {"", EpShare} }
    \cup { [NoParams EXCEPT !.start = a, !.limit = l] :
             a \in {[kind |-> "epoch", t |-> StartHour],
                    [kind |-> "rfc3339", t |-> StartHour, off |-> 0],
                    [kind |-> "junk"]},
             l \in {[kind |-> "int", n |-> 1]} }
    \cup { [NoParams EXCEPT !.limit = [kind |-> "junk"]] }
    \cup { [NoParams EXCEPT !.contains = DouyinText,
                            !.offset = [kind |-> "int", n |-> -5]] }

NextHttp ==
    \/ \E outcome \in {"ok", "open", "exec"} : Boot(outcome)
    \/ \E text \in ShareTexts, fail \in BOOLEAN :
          \E out \in ShareOutcomes(text) : ShareUrlParse(text, out, "10.0.0.1", fail)
    \/ \E source \in {"douyin", "tiktok"}, fail \in BOOLEAN :
          \E out \in IdOutcomes(source, <<"7">>) :
              VideoIdParse(source, <<"7">>, out, "10.0.0.2", fail)
    \/ \E params \in LogsParams : Logs(params, FALSE)
    \/ Logs(NoParams, TRUE)

SpecHttp == Init /\ [][NextHttp]_vars

Handled == last.op \in {"share", "id"}

\* C7: both parse endpoints answer {code, msg, data} with code 200 and the
\* resolved media as data exactly when the resolver returned no error, and
\* otherwise a code other than 200, the resolver's message and no data;
\* whether the Append of the audit entry failed makes no difference.
C7_ResponseShape ==
    Handled =>
        /\ last.resp.Code = 200 <=> last.out.err = Nil
        /\ last.out.err = Nil => last.resp.Data = last.out.res
        /\ last.out.err # Nil =>
              last.resp.Msg = last.out.err[1] /\ last.resp.Data = Nil

C7_Witness ==
    /\ Handled /\ last.appendErr # ""
    /\ last.out.err # Nil /\ last.resp.Code = 201 /\ last.resp.Msg = UpstreamError

\* C8: a resolution attempt leaves one audit entry with the endpoint name,
\* the original input and the platform when it is known; so a share text
\* resolved for a matched platform is stored under that platform.
C8_PlatformRecorded ==
    (Handled /\ last.appendErr = "") =>
        LET row == records[Len(records)]
        IN  /\ row.endpoint = (IF last.op = "share" THEN EpShare ELSE EpId)
            /\ (IF last.op = "share" THEN row.share_url ELSE row.video_id) = last.input
            /\ last.out.platform # "" => row.source = last.out.platform

====
